---- MODULE Spec2Model ----
(***************************************************************************)
(* The image-editing session of src/App.tsx: the component state held by   *)
(* App, the handlers handleImageUpload and handleGenerate, the "Start      *)
(* Over" button, and the asynchronous completions (FileReader reads and    *)
(* the call of the external edit service) that resume them.                *)
(*                                                                         *)
(* Conventions.  A nullable value (T | null) is a sequence of length at    *)
(* most one: <<>> is null and <<x>> is the value x.  A string on which the *)
(* code computes (a data URL) is a sequence of tokens in which "," is a    *)
(* token of its own; a string the code only stores (the prompt, an error   *)
(* message, a media type) is a TLA+ string.                                *)
(***************************************************************************)
EXTENDS Integers, Sequences, FiniteSets

VARIABLES
    originalImage,  \* App.tsx:16  string | null, the data URL shown as "Original"
    originalFile,   \* App.tsx:17  File | null
    editedImage,    \* App.tsx:18  string | null
    prompt,         \* App.tsx:19  string
    isLoading,      \* App.tsx:20  boolean
    error,          \* App.tsx:21  string | null
    reads,          \* pending fileToBase64 reads started by handleImageUpload
    requests,       \* suspended handleGenerate invocations (at an await)
    accepted,       \* history: number of handleGenerate invocations past the guard
    resolved,       \* history: number of handleGenerate invocations that ran finally
    calls,          \* history: number of calls of editImageWithGemini
    lastCall,       \* history: the latest call of editImageWithGemini, or null
    lastOp,         \* history: the handler or completion that ran last
    sample          \* a file put through the encoder alone, or null

vars == <<originalImage, originalFile, editedImage, prompt, isLoading, error,
          reads, requests, accepted, resolved, calls, lastCall, lastOp, sample>>

session == <<originalImage, originalFile, editedImage, prompt, isLoading, error>>

----------------------------------------------------------------------------
(* Bounds of the model. *)

\* the number of handleGenerate invocations that pass the guard in one run
MaxGenerate == 2
\* the number of file reads of handleImageUpload pending at one time
MaxReads == 2

----------------------------------------------------------------------------
(* Values. *)

Null == <<>>
Some(x) == <<x>>

\* JavaScript truthiness of a (string | null): null and "" are falsy.
Truthy(s) == s # Null /\ s[1] # <<>>

\* The files the picker can hand over: content bytes and declared type.
PngFile == [name |-> "a.png", type |-> "image/png", bytes |-> <<137, 80, 78>>]
JpegFile == [name |-> "b.jpg", type |-> "image/jpeg", bytes |-> <<255, 216>>]
Files == {PngFile, JpegFile}

\* The texts the textarea can hold.
Prompts == {"", "add a hat", "make it pop art"}

\* The base64 payloads the edit service can answer with.
ServiceImages == {<<"Q", "Q", "=", "=">>}

LoadErrorMessage == "Failed to load image. Please try another file."
GenerateErrorMessage ==
    "Failed to generate image. The model may be overloaded. Please try again later."

----------------------------------------------------------------------------
(* fileToBase64: FileReader.readAsDataURL, and the split of its result. *)

Base64Alphabet ==
    << "A","B","C","D","E","F","G","H","I","J","K","L","M","N","O","P",
       "Q","R","S","T","U","V","W","X","Y","Z","a","b","c","d","e","f",
       "g","h","i","j","k","l","m","n","o","p","q","r","s","t","u","v",
       "w","x","y","z","0","1","2","3","4","5","6","7","8","9","+","/" >>

Digit(n) == Base64Alphabet[n + 1]

RECURSIVE Base64(_)
Base64(bs) ==
    IF Len(bs) = 0 THEN <<>>
    ELSE IF Len(bs) = 1 THEN
        << Digit(bs[1] \div 4), Digit((bs[1] % 4) * 16), "=", "=" >>
    ELSE IF Len(bs) = 2 THEN
        << Digit(bs[1] \div 4),
           Digit((bs[1] % 4) * 16 + bs[2] \div 16),
           Digit((bs[2] % 16) * 4), "=" >>
    ELSE
        << Digit(bs[1] \div 4),
           Digit((bs[1] % 4) * 16 + bs[2] \div 16),
           Digit((bs[2] % 16) * 4 + bs[3] \div 64),
           Digit(bs[3] % 64) >>
        \o Base64(SubSeq(bs, 4, Len(bs)))

\* `data:${type};base64,${payload}`
DataUrl(type, payload) == <<"data:", type, ";base64", ",">> \o payload

\* The value a successful fileToBase64(file) resolves with.
fileToBase64(file) == DataUrl(file.type, Base64(file.bytes))

\* s.split(','): the pieces of s between its "," tokens.
RECURSIVE Split(_)
Split(s) ==
    IF \A i \in 1..Len(s) : s[i] # ","
    THEN <<s>>
    ELSE LET k == CHOOSE i \in 1..Len(s) :
                      s[i] = "," /\ \A j \in 1..(i - 1) : s[j] # ","
         IN <<SubSeq(s, 1, k - 1)>> \o Split(SubSeq(s, k + 1, Len(s)))

\* s.split(',')[0]: the piece before the first ",".
SplitFirst(s) == Some(Split(s)[1])

\* s.split(',')[1]: the second piece, or undefined (null here) without one.
SplitSecond(s) == IF Len(Split(s)) >= 2 THEN Some(Split(s)[2]) ELSE Null

----------------------------------------------------------------------------
(* Rendering: which controls exist and which are enabled. *)

\* App.tsx:74  the uploader is rendered instead of the controls
UploaderShown == ~Truthy(originalImage)

\* The trigger without the in-flight test.
isGenerateDisabledIgnoringLoading == prompt = "" \/ ~Truthy(originalImage)

\* App.tsx:59
isGenerateDisabled == isLoading \/ prompt = "" \/ ~Truthy(originalImage)

----------------------------------------------------------------------------
(* Initial state: the useState initialisers, nothing pending. *)

Idle ==
    /\ originalImage = Null
    /\ originalFile = Null
    /\ editedImage = Null
    /\ prompt = ""
    /\ isLoading = FALSE
    /\ error = Null
    /\ reads = [f \in Files |-> 0]
    /\ requests = {}
    /\ accepted = 0
    /\ resolved = 0
    /\ calls = 0
    /\ lastCall = Null
    /\ lastOp = "Init"

Init == Idle /\ sample = Null

RECURSIVE SumOver(_, _)
SumOver(f, S) ==
    IF S = {} THEN 0
    ELSE LET x == CHOOSE y \in S : TRUE IN f[x] + SumOver(f, S \ {x})

PendingReads == SumOver(reads, Files)

history == <<accepted, resolved, calls, lastCall>>

----------------------------------------------------------------------------
(* handleImageUpload, App.tsx:23-34, and the completions of its read. *)

\* handleImageUpload without setEditedImage(null).
SelectImageKeepingResult(file) ==
    /\ UploaderShown
    /\ PendingReads < MaxReads
    /\ error' = Null
    /\ originalFile' = Some(file)
    /\ reads' = [reads EXCEPT ![file] = @ + 1]
    /\ lastOp' = "SelectImage"
    /\ UNCHANGED sample
    /\ UNCHANGED <<originalImage, editedImage, prompt, isLoading, requests,
                   history>>

\* onChange of the file input with a file chosen.
SelectImage(file) ==
    /\ UploaderShown
    /\ PendingReads < MaxReads
    /\ error' = Null
    /\ editedImage' = Null
    /\ originalFile' = Some(file)
    /\ reads' = [reads EXCEPT ![file] = @ + 1]
    /\ lastOp' = "SelectImage"
    /\ UNCHANGED sample
    /\ UNCHANGED <<originalImage, prompt, isLoading, requests, history>>

\* onChange with no file (event.target.files?.[0] undefined): nothing is set.
SelectNone ==
    /\ UploaderShown
    /\ lastOp' = "SelectNone"
    /\ UNCHANGED sample
    /\ UNCHANGED <<session, reads, requests, history>>

\* reader.onload of a read started by handleImageUpload: .then(setOriginalImage)
ReadDone(file) ==
    /\ reads[file] > 0
    /\ reads' = [reads EXCEPT ![file] = @ - 1]
    /\ originalImage' = Some(fileToBase64(file))
    /\ lastOp' = "ReadDone"
    /\ UNCHANGED sample
    /\ UNCHANGED <<originalFile, editedImage, prompt, isLoading, error,
                   requests, history>>

\* reader.onerror of a read started by handleImageUpload: .catch(... setError)
ReadFail(file) ==
    /\ reads[file] > 0
    /\ reads' = [reads EXCEPT ![file] = @ - 1]
    /\ error' = Some(LoadErrorMessage)
    /\ lastOp' = "ReadFail"
    /\ UNCHANGED sample
    /\ UNCHANGED <<originalImage, originalFile, editedImage, prompt, isLoading,
                   requests, history>>

----------------------------------------------------------------------------
(* The textarea, App.tsx:88-95. *)

EditPrompt(text) ==
    /\ ~UploaderShown
    /\ ~isLoading
    /\ prompt' = text
    /\ lastOp' = "EditPrompt"
    /\ UNCHANGED sample
    /\ UNCHANGED <<originalImage, originalFile, editedImage, isLoading, error,
                   reads, requests, history>>

----------------------------------------------------------------------------
(* handleGenerate, App.tsx:36-57. *)

\* The guard without the test of the file.
GuardReturnsOnPromptOnly == prompt = ""

\* App.tsx:37  if (!originalFile || !prompt) return;
GuardReturns == originalFile = Null \/ prompt = ""

\* The synchronous part of handleGenerate, up to its first await.  The
\* invocation keeps the originalFile and prompt of the render it was made in.
handleGenerate ==
    IF GuardReturns
    THEN UNCHANGED <<session, reads, requests, history>>
    ELSE /\ accepted < MaxGenerate
         /\ isLoading' = TRUE
         /\ error' = Null
         /\ editedImage' = Null
         /\ requests' = requests \cup
                {[id |-> accepted + 1, file |-> originalFile, prompt |-> prompt,
                  pc |-> "encoding"]}
         /\ accepted' = accepted + 1
         /\ UNCHANGED <<originalImage, originalFile, prompt, reads, resolved,
                        calls, lastCall>>

\* A click on the Generate button, App.tsx:96-103: the button is rendered with
\* the controls and a disabled button delivers no click.
Generate ==
    /\ ~UploaderShown
    /\ ~isGenerateDisabled
    /\ handleGenerate
    /\ lastOp' = "Generate"
    /\ UNCHANGED sample

\* The continuation reading the component's current state instead of the
\* originalFile and prompt its invocation was made with.
EncodeDoneReadingCurrentState(r) ==
    /\ r \in requests
    /\ r.pc = "encoding"
    /\ r.file # Null
    /\ originalFile # Null
    /\ requests' = (requests \ {r}) \cup {[r EXCEPT !.pc = "calling"]}
    /\ lastCall' = Some([file |-> r.file[1],
                         asked |-> r.prompt,
                         data |-> SplitSecond(fileToBase64(originalFile[1])),
                         mimeType |-> originalFile[1].type,
                         prompt |-> prompt,
                         answer |-> Null])
    /\ calls' = calls + 1
    /\ lastOp' = "EncodeDone"
    /\ UNCHANGED sample
    /\ UNCHANGED <<session, reads, accepted, resolved>>

\* App.tsx:44-47  the awaited read succeeds: the payload is cut out of the data
\* URL and editImageWithGemini is called.
EncodeDone(r) ==
    /\ r \in requests
    /\ r.pc = "encoding"
    /\ r.file # Null
    /\ requests' = (requests \ {r}) \cup {[r EXCEPT !.pc = "calling"]}
    /\ lastCall' = Some([file |-> r.file[1],
                         asked |-> r.prompt,
                         data |-> SplitSecond(fileToBase64(r.file[1])),
                         mimeType |-> r.file[1].type,
                         prompt |-> r.prompt,
                         answer |-> Null])
    /\ calls' = calls + 1
    /\ lastOp' = "EncodeDone"
    /\ UNCHANGED sample
    /\ UNCHANGED <<session, reads, accepted, resolved>>

\* catch without the finally block.
FailedWithoutCleanup(r) ==
    /\ error' = Some(GenerateErrorMessage)
    /\ requests' = requests \ {r}
    /\ resolved' = resolved + 1
    /\ UNCHANGED <<originalImage, originalFile, editedImage, prompt, isLoading,
                   reads, accepted, calls, lastCall>>

\* App.tsx:51-55  catch and finally
Failed(r) ==
    /\ error' = Some(GenerateErrorMessage)
    /\ isLoading' = FALSE
    /\ requests' = requests \ {r}
    /\ resolved' = resolved + 1
    /\ UNCHANGED <<originalImage, originalFile, editedImage, prompt, reads,
                   accepted, calls, lastCall>>

\* A rejected read that escapes the try block: nothing is reported and the
\* flag stays set.
EncodeFailEscaping(r) ==
    /\ r \in requests
    /\ r.pc = "encoding"
    /\ requests' = requests \ {r}
    /\ resolved' = resolved + 1
    /\ lastOp' = "EncodeFail"
    /\ UNCHANGED <<session, reads, accepted, calls, lastCall, sample>>

\* App.tsx:44  the awaited read rejects (or readAsDataURL throws).
EncodeFail(r) ==
    /\ r \in requests
    /\ r.pc = "encoding"
    /\ Failed(r)
    /\ lastOp' = "EncodeFail"
    /\ UNCHANGED sample

\* A resolution that is dropped when the session no longer holds the file the
\* request was made for.
ServiceSuccessDiscardingStale(r, image) ==
    /\ r \in requests
    /\ r.pc = "calling"
    /\ editedImage' = IF originalFile = r.file
                      THEN Some(DataUrl(r.file[1].type, image))
                      ELSE editedImage
    /\ isLoading' = FALSE
    /\ requests' = requests \ {r}
    /\ resolved' = resolved + 1
    /\ lastCall' = Some([lastCall[1] EXCEPT !.answer = Some(image)])
    /\ lastOp' = "ServiceSuccess"
    /\ UNCHANGED sample
    /\ UNCHANGED <<originalImage, originalFile, prompt, error, reads, accepted,
                   calls>>

\* App.tsx:47-49, 54-55  editImageWithGemini resolves with a payload.
ServiceSuccess(r, image) ==
    /\ r \in requests
    /\ r.pc = "calling"
    /\ editedImage' = Some(DataUrl(r.file[1].type, image))
    /\ isLoading' = FALSE
    /\ requests' = requests \ {r}
    /\ resolved' = resolved + 1
    /\ lastCall' = Some([lastCall[1] EXCEPT !.answer = Some(image)])
    /\ lastOp' = "ServiceSuccess"
    /\ UNCHANGED sample
    /\ UNCHANGED <<originalImage, originalFile, prompt, error, reads, accepted,
                   calls>>

\* A rejected call that is issued again instead of being reported.
ServiceFailRetrying(r) ==
    /\ r \in requests
    /\ r.pc = "calling"
    /\ calls <= MaxGenerate
    /\ calls' = calls + 1
    /\ lastOp' = "ServiceFail"
    /\ UNCHANGED <<session, reads, requests, accepted, resolved, lastCall,
                   sample>>

\* App.tsx:47, 51-55  editImageWithGemini rejects.
ServiceFail(r) ==
    /\ r \in requests
    /\ r.pc = "calling"
    /\ Failed(r)
    /\ lastOp' = "ServiceFail"
    /\ UNCHANGED sample

----------------------------------------------------------------------------
(* The "Start Over" button, App.tsx:105-116, rendered with the controls. *)

\* Start Over that also clears the in-flight flag.
ResetClearingLoading ==
    /\ ~UploaderShown
    /\ originalImage' = Null
    /\ originalFile' = Null
    /\ editedImage' = Null
    /\ prompt' = ""
    /\ error' = Null
    /\ isLoading' = FALSE
    /\ lastOp' = "Reset"
    /\ UNCHANGED sample
    /\ UNCHANGED <<reads, requests, history>>

\* Start Over without setError(null).
ResetKeepingError ==
    /\ ~UploaderShown
    /\ originalImage' = Null
    /\ originalFile' = Null
    /\ editedImage' = Null
    /\ prompt' = ""
    /\ lastOp' = "Reset"
    /\ UNCHANGED sample
    /\ UNCHANGED <<error, isLoading, reads, requests, history>>

Reset ==
    /\ ~UploaderShown
    /\ originalImage' = Null
    /\ originalFile' = Null
    /\ editedImage' = Null
    /\ prompt' = ""
    /\ error' = Null
    /\ lastOp' = "Reset"
    /\ UNCHANGED sample
    /\ UNCHANGED <<isLoading, reads, requests, history>>

----------------------------------------------------------------------------
(* The specification. *)

Encoded == \E r \in requests : EncodeDone(r) \/ EncodeFail(r)

Answered ==
    \E r \in requests : (\E image \in ServiceImages : ServiceSuccess(r, image))
                        \/ ServiceFail(r)

Next ==
    \/ \E file \in Files : SelectImage(file)
    \/ SelectNone
    \/ \E file \in Files : ReadDone(file)
    \/ \E file \in Files : ReadFail(file)
    \/ \E text \in Prompts : EditPrompt(text)
    \/ Generate
    \/ Encoded
    \/ Answered
    \/ Reset

Spec == Init /\ [][Next]_vars

\* The encoder alone, on any file content: the read of fileToBase64, then the
\* cut of the payload that handleGenerate sends.
MaxContentLen == 3
ByteValues == {0, 77, 128, 255}
Contents == UNION {[1..n -> ByteValues] : n \in 0..MaxContentLen}
SampleTypes == {"image/png", "image/gif"}

EncoderInit ==
    /\ Idle
    /\ \E bytes \in Contents, type \in SampleTypes :
          sample = Some([file |-> [name |-> "sample", type |-> type,
                                   bytes |-> bytes],
                         pc |-> "selected", url |-> Null, data |-> Null])

\* App.tsx:6-13  reader.onload: the promise resolves with the data URL.
EncoderRead ==
    /\ sample # Null
    /\ sample[1].pc = "selected"
    /\ sample' = Some([sample[1] EXCEPT !.pc = "read",
                          !.url = Some(fileToBase64(sample[1].file))])
    /\ UNCHANGED <<session, reads, requests, history, lastOp>>

\* App.tsx:44  (await fileToBase64(originalFile)).split(',')[1]
EncoderCut ==
    /\ sample # Null
    /\ sample[1].pc = "read"
    /\ sample' = Some([sample[1] EXCEPT !.pc = "cut",
                          !.data = SplitSecond(sample[1].url[1])])
    /\ UNCHANGED <<session, reads, requests, history, lastOp>>

EncoderNext == EncoderRead \/ EncoderCut

EncoderSpec == EncoderInit /\ [][EncoderNext]_vars

\* The awaited read and the awaited service call each complete.
FairSpec == Spec /\ WF_vars(Encoded) /\ WF_vars(Answered)

----------------------------------------------------------------------------
(* Properties. *)

InFlight == Cardinality(requests)

\* C1: at most one edit request is in flight at any time: the number of
\* dispatched handleGenerate invocations whose resolution has not been applied
\* is 0 or 1 in every reachable state.
C1_AtMostOneInFlight ==
    /\ InFlight <= 1
    /\ accepted - resolved = InFlight

\* A request is in flight while, after a Reset, an image has been selected and
\* read again: the controls are back and no second request can be dispatched.
C1_Witness ==
    /\ InFlight = 1
    /\ lastOp = "ReadDone"
    /\ originalFile # Null
    /\ Truthy(originalImage)

\* C2: the edit service is called only for an invocation made with a file
\* selected and a non-empty prompt, and handleGenerate invoked with no file
\* selected or with an empty prompt calls nothing and changes no session field.
C2_NoSubmitWithoutInputs ==
    /\ [](lastCall # Null => lastCall[1].file \in Files /\ lastCall[1].asked # "")
    /\ [][(lastOp' = "Generate" /\ (originalFile = Null \/ prompt = ""))
            => (session' = session /\ requests' = requests
                /\ history' = history)]_vars

\* handleGenerate has just run with no file selected, and nothing happened.
C2_Witness ==
    /\ lastOp = "Generate"
    /\ originalFile = Null
    /\ requests = {}
    /\ ~isLoading

Resolutions == {"EncodeFail", "ServiceSuccess", "ServiceFail"}

\* C3: editedImage and error are never both non-null.
C3_ResultErrorExclusive == ~(editedImage # Null /\ error # Null)

\* C4: isLoading is true in exactly the states in which a handleGenerate
\* invocation has been dispatched and has not resolved; it becomes true only
\* when Generate is accepted and false only when that request resolves, and
\* no other action changes it.
C4_LoadingIsInFlight ==
    /\ [](isLoading <=> requests # {})
    /\ [][(~isLoading /\ isLoading')
            => (lastOp' = "Generate" /\ accepted' = accepted + 1)]_vars
    /\ [][(isLoading /\ ~isLoading')
            => (lastOp' \in Resolutions /\ resolved' = resolved + 1)]_vars

\* Start Over was pressed while the first request was in flight, and the
\* flag is still set.
C4_Witness ==
    /\ lastOp = "Reset"
    /\ isLoading
    /\ requests # {}
    /\ resolved = 0

\* C5: with Empty = no image selected (where Reset always leads), Ready =
\* image selected and no request in flight, Generating = request in flight,
\* isLoading is true if and only if the session is Generating.
C5_InFlightIffGenerating ==
    LET state == IF originalFile = Null /\ originalImage = Null THEN "Empty"
                 ELSE IF requests = {} THEN "Ready"
                 ELSE "Generating"
    IN  isLoading <=> state = "Generating"

\* C6: right after a service success editedImage is the returned image, error
\* is null and isLoading is false; right after a failure error is a non-empty
\* message, editedImage is null and isLoading is false.
C6_ResolutionPostState ==
    /\ lastOp = "ServiceSuccess" =>
          /\ editedImage =
                Some(DataUrl(lastCall[1].mimeType, lastCall[1].answer[1]))
          /\ error = Null
          /\ ~isLoading
    /\ lastOp \in {"EncodeFail", "ServiceFail"} =>
          /\ error # Null
          /\ error[1] # ""
          /\ editedImage = Null
          /\ ~isLoading

\* C7: whenever isLoading is true it eventually becomes false, and every
\* dispatched request is either in flight or has resolved exactly once.
C7_LoadingEventuallyCleared ==
    /\ isLoading ~> ~isLoading
    /\ [](resolved + InFlight = accepted)
    /\ [][resolved' # resolved
            => (/\ resolved' = resolved + 1
                /\ lastOp' \in Resolutions
                /\ \E r \in requests : requests' = requests \ {r})]_vars

\* The awaited read of a request failed after Start Over had emptied the
\* session, and the flag was cleared.
C7_Witness ==
    /\ lastOp = "EncodeFail"
    /\ originalFile = Null
    /\ ~isLoading
    /\ resolved = accepted

\* C8: in the state right after Start Over, originalFile and originalImage
\* are null, the prompt is empty, and editedImage and error are null.
C8_ResetYieldsEmpty ==
    lastOp = "Reset" =>
        /\ originalFile = Null
        /\ originalImage = Null
        /\ prompt = ""
        /\ editedImage = Null
        /\ error = Null

\* Start Over was pressed after a request had resolved.
C8_Witness ==
    /\ lastOp = "Reset"
    /\ resolved >= 1
    /\ resolved = accepted

\* C9: Start Over leaves the in-flight request and the flag alone, and every
\* resolution is applied to the session, whatever the session holds by then.
C9_ResetDoesNotCancel ==
    /\ [][lastOp' = "Reset"
            => (requests' = requests /\ isLoading' = isLoading)]_vars
    /\ [][(resolved' # resolved /\ lastOp' = "ServiceSuccess")
            => editedImage' # Null]_vars
    /\ [][(resolved' # resolved /\ lastOp' \in {"EncodeFail", "ServiceFail"})
            => error' # Null]_vars

\* No image is selected and the result of the request made before Start Over
\* has just been stored.
C9_Witness ==
    /\ lastOp = "ServiceSuccess"
    /\ originalFile = Null
    /\ originalImage = Null
    /\ editedImage # Null

\* C10: the call of the edit service carries the payload and the media type
\* of the file, and the prompt, that the session held when Generate was
\* invoked.
C10_CallCarriesDispatchInputs ==
    lastCall # Null =>
        LET c == lastCall[1]
        IN  /\ c.data = Some(Base64(c.file.bytes))
            /\ c.mimeType = c.file.type
            /\ c.prompt = c.asked
            /\ c.prompt # ""

\* The service has just been called for a request whose file is no longer the
\* session's.
C10_Witness ==
    /\ lastOp = "EncodeDone"
    /\ lastCall # Null
    /\ originalFile # Some(lastCall[1].file)

Encoding == {r \in requests : r.pc = "encoding"}

\* C11 as claimed: every accepted handleGenerate invocation that is past its
\* read has made exactly one call of the edit service.
C11_ExactlyOneCallPerGenerate == calls = accepted - Cardinality(Encoding)

\* C11 as amended: an accepted invocation calls the edit service once when
\* its read succeeds and not at all when it fails; a rejected call is not
\* issued again; the calls never outnumber the accepted invocations.
C11_AtMostOneCallPerGenerate ==
    /\ [](calls <= accepted - Cardinality(Encoding))
    /\ [][calls' # calls
            => (/\ calls' = calls + 1
                /\ lastOp' = "EncodeDone"
                /\ \E r \in Encoding :
                      requests' = (requests \ {r})
                                    \cup {[r EXCEPT !.pc = "calling"]})]_vars
    /\ [][(lastOp' = "EncodeDone" /\ requests' # requests)
            => calls' = calls + 1]_vars
    /\ [][(lastOp' = "ServiceFail" /\ resolved' # resolved)
            => (calls' = calls
                /\ Cardinality(requests') < Cardinality(requests))]_vars

\* Two invocations were accepted: the read of one failed, so one call was
\* made in all, and that call was rejected and not made again.
C11_Witness ==
    /\ lastOp = "ServiceFail"
    /\ accepted = 2
    /\ resolved = 2
    /\ calls = 1

\* C12: right after the read of a file chosen in the uploader has failed,
\* error holds a non-empty message and no image is selected: originalFile
\* and originalImage are both null.
C12_ReadFailureClearsImage ==
    lastOp = "ReadFail" =>
        /\ error # Null
        /\ error[1] # ""
        /\ originalFile = Null
        /\ originalImage = Null

\* C13 as claimed: whenever a file is selected and no request is in flight
\* (Ready), as when none is selected (Empty), another file can be selected.
C13_SelectAvailableFromReady ==
    (~isLoading /\ requests = {} /\ PendingReads < MaxReads)
        => ENABLED (\E file \in Files : SelectImage(file))

\* C13 as amended: a file can be selected only while no encoded image is
\* displayed (originalImage null); the selection clears editedImage and error
\* and makes the new file originalFile, and starts its read; originalImage is
\* left as it is until a read completes.
C13_SelectReplacesFile ==
    /\ [](Truthy(originalImage) => ~ENABLED (\E file \in Files : SelectImage(file)))
    /\ [][lastOp' = "SelectImage"
            => (/\ ~Truthy(originalImage)
                /\ originalImage' = originalImage
                /\ editedImage' = Null
                /\ error' = Null
                /\ \E file \in Files :
                      /\ originalFile' = Some(file)
                      /\ reads'[file] = reads[file] + 1)]_vars

\* b.jpg has just been selected in place of a.png, whose read is still
\* pending, after a request had resolved.
C13_Witness ==
    /\ lastOp = "SelectImage"
    /\ originalFile = Some(JpegFile)
    /\ reads[PngFile] = 1
    /\ reads[JpegFile] = 1
    /\ resolved >= 1

\* The value of a base64 digit, or -1 for any other token.
DigitValue(c) ==
    IF \E i \in 1..64 : Base64Alphabet[i] = c
    THEN (CHOOSE i \in 1..64 : Base64Alphabet[i] = c) - 1
    ELSE -1

WellFormed(s) ==
    /\ Len(s) % 4 = 0
    /\ \A i \in 1..Len(s) :
          \/ DigitValue(s[i]) >= 0
          \/ s[i] = "=" /\ i >= Len(s) - 1 /\ (i = Len(s) \/ s[Len(s)] = "=")

RECURSIVE DecodeGroups(_)
DecodeGroups(s) ==
    IF Len(s) = 0 THEN <<>>
    ELSE LET a == DigitValue(s[1])
             b == DigitValue(s[2])
             c == DigitValue(s[3])
             d == DigitValue(s[4])
         IN  (IF s[3] = "=" THEN << a * 4 + b \div 16 >>
              ELSE IF s[4] = "=" THEN
                  << a * 4 + b \div 16, (b % 16) * 16 + c \div 4 >>
              ELSE << a * 4 + b \div 16, (b % 16) * 16 + c \div 4,
                      (c % 4) * 64 + d >>)
             \o DecodeGroups(SubSeq(s, 5, Len(s)))

\* decode: the bytes a base64 text stands for, or null when it is not base64.
Base64Decode(s) == IF WellFormed(s) THEN Some(DecodeGroups(s)) ELSE Null

\* C14: decoding the payload cut out of fileToBase64's output gives back the
\* file's bytes exactly, for every content.
C14_EncoderRoundTrip ==
    (sample # Null /\ sample[1].pc = "cut") =>
        /\ sample[1].data # Null
        /\ Base64Decode(sample[1].data[1]) = Some(sample[1].file.bytes)
        /\ sample[1].url = Some(DataUrl(sample[1].file.type, sample[1].data[1]))

\* A two-byte content, whose encoding is padded, has been read and cut.
C14_Witness ==
    /\ sample # Null
    /\ sample[1].pc = "cut"
    /\ sample[1].file.bytes = <<255, 77>>
    /\ sample[1].data = Some(<<"/", "0", "0", "=">>)

\* C15: when the read awaited by handleGenerate fails, error holds a
\* non-empty message, editedImage is null and isLoading is false in the next
\* state, and no call of the edit service is made for that invocation.
C15_EncodeFailureReported ==
    /\ [](lastOp = "EncodeFail" =>
            /\ error = Some(GenerateErrorMessage)
            /\ GenerateErrorMessage # ""
            /\ editedImage = Null
            /\ ~isLoading
            /\ requests = {})
    /\ [][lastOp' = "EncodeFail" /\ resolved' # resolved
            => (/\ calls' = calls
                /\ lastCall' = lastCall
                /\ \E r \in Encoding : requests' = requests \ {r})]_vars

\* The read of the only accepted invocation has failed: an error is shown
\* and the edit service was never called.
C15_Witness ==
    /\ lastOp = "EncodeFail"
    /\ accepted = 1
    /\ calls = 0
    /\ error # Null

\* C16: whenever originalImage is non-null it is the encoding of the current
\* originalFile.
C16_ImageBelongsToFile ==
    originalImage # Null =>
        /\ originalFile # Null
        /\ originalImage = Some(fileToBase64(originalFile[1]))

\* C17: whenever the Generate button is rendered and enabled, a click on it
\* dispatches a request: originalFile is non-null and handleGenerate does not
\* return at its guard.
C17_EnabledTriggerDispatches ==
    (~UploaderShown /\ ~isGenerateDisabled) =>
        /\ originalFile # Null
        /\ ~GuardReturns

====
